---- MODULE Spec2Model ----
(***************************************************************************)
(* FairMarket AI browser extension: the content script (price analysis,    *)
(* TinyVAE inference, federated-learning logger) and the popup (federated  *)
(* training cycle) around the persisted chrome.storage queue trainingLogs. *)
(*                                                                         *)
(* Numbers.  The JavaScript code computes with doubles.  Here every        *)
(* normalised quantity (features, weights, errors) is a fixed-point        *)
(* integer counted in units of 1/SCALE, where one unit is the trainer's    *)
(* step LEARNING_RATE * 0.001 = 0.00005, so that 1.0 = 20000 units.        *)
(* Rounding of doubles is not modelled.  JavaScript arrays are 0-based,    *)
(* the sequences here are 1-based: JS index n is index n + 1.              *)
(***************************************************************************)
EXTENDS Integers, Sequences, FiniteSets, TLC

VARIABLES
    trainingLogs,   \* chrome.storage.local: the persisted queue of log entries
    clock,          \* the time new Date() reads, advanced by every reading
    \* --- content script, one per open page p ---
    site,           \* site[p]: what detectSite() answers on p ("none" for null)
    brain_pc,       \* brain_pc[p]: where ai.loadBrain() stands
    ai,             \* ai[p]: the TinyVAE object, [weights, loaded]
    ra_pc,          \* ra_pc[p]: where runAnalysis stands
    inputVector,    \* inputVector[p]: extractFeatures' result (<<>> before, and for null)
    outputVector,   \* outputVector[p]: ai.predict's result (<<>> before)
    popup,          \* popup[p]: type of the #fairmarket-alert element ("none": absent)
    log_pc,         \* log_pc[p]: where logForFederatedLearning's storage calls stand
    logEntry,       \* logEntry[p]: the entry logForFederatedLearning built
    result,         \* result[p]: the trainingLogs that storage.get handed its callback
    document,       \* document[p]: the page as extractFeatures read it
    dense,          \* a MathOps.dense call on its own: arguments and output
    \* --- popup, one runFederatedCycle invocation per slot c ---
    pc,             \* pc[c]: where the invocation stands
    cycleLogs,      \* cycleLogs[c]: its logs, storage.trainingLogs as read at its start
    cycleWeights,   \* cycleWeights[c]: its weights, what fetchGlobalWeights returned
    updatedDecoder, \* updatedDecoder[c]: what trainOnLogs returned, the POST body
    resData,        \* resData[c]: outcome of POST /send-update
    btnDisabled,    \* trainBtn.disabled
    status,         \* the text of #status
    timers,         \* pending setTimeout(() => btn.disabled = false, 2000)
    statsPending,   \* pending storage.get callbacks of updateStats
    logCount,       \* the text of #logCount
    consoleError    \* the popup's console holds an error of console.error(e)

vars == << trainingLogs, clock, site, brain_pc, ai, ra_pc, inputVector,
           outputVector, popup, log_pc, logEntry, result, pc, cycleLogs, cycleWeights,
           updatedDecoder, resData, btnDisabled, status, timers, statsPending,
           logCount, document, dense, consoleError >>

pageVars == << site, brain_pc, ai, ra_pc, inputVector, outputVector, popup,
               log_pc, logEntry, result, document, dense >>

popupVars == << pc, cycleLogs, cycleWeights, updatedDecoder, resData, btnDisabled, status,
                timers, statsPending, logCount, consoleError >>

\* ------------------------------------------------------------------------
\* 1. CONFIGURATION (content script CONFIG, popup constants)
\* ------------------------------------------------------------------------
SCALE == 20000

MAX_PRICE == 500000

MAX_RAM == 64

\* 0.005, 0.015 and 0.15 in units of 1/SCALE
THRESHOLD == 100

BIAS_TOLERANCE == 300

MAX_ERROR_CAP == 3000

\* 0.05 in units of 1/SCALE
LEARNING_RATE == 1000

\* LEARNING_RATE * 0.001, the amount one UNDERPRICED_DEAL log takes off a weight
Step == LEARNING_RATE \div 1000

\* Pages open at once
NumPages == 1

\* Longest log sequence handed to trainOnLogs on its own
MaxLogLen == 3

\* Enabling timers pending at once, counting those the running invocations
\* will set: no click is taken beyond it
MaxTimers == 2

\* JS index of the final dense layer's weight matrix in the decoder
finalLayerIdx == 4

Abs(x) == IF x < 0 THEN -x ELSE x

Max(a, b) == IF a > b THEN a ELSE b

Min(a, b) == IF a < b THEN a ELSE b

RECURSIVE SumTo(_, _)
\* f[1] + ... + f[n]
SumTo(f, n) == IF n = 0 THEN 0 ELSE f[n] + SumTo(f, n - 1)

\* ------------------------------------------------------------------------
\* 6. MATH ENGINE (MathOps.dense)
\* ------------------------------------------------------------------------
\* Math.max(0, sum)
Relu(sum) == Max(0, sum)

\* 1 / (1 + Math.exp(-sum)): the logistic function has no exact fixed-point
\* form; it is modelled by its monotone piecewise-linear approximation
\* through (0, 1/2) with slope 1/4, clipped to [0, 1].
Sigmoid(sum) == Max(0, Min(SCALE, (SCALE \div 2) + (sum \div 4)))

Activate(activation, sum) ==
    IF activation = "relu" THEN Relu(sum)
    ELSE IF activation = "sigmoid" THEN Sigmoid(sum)
    ELSE sum

\* Mutant of Dense: the column loop started at 1 for 0.
DenseFromSecondColumn(input, weights, bias, activation) ==
    [j \in 1..(Len(weights[1]) - 1) |->
        LET prod == [i \in 1..Len(input) |-> input[i] * weights[i][j + 1]]
            sum  == (SumTo(prod, Len(input)) \div SCALE)
                    + (IF bias # <<>> THEN bias[j + 1] ELSE 0)
        IN  Activate(activation, sum)]

\* A bias that is not given (undefined) is the empty sequence.
Dense(input, weights, bias, activation) ==
    [j \in 1..Len(weights[1]) |->
        LET prod == [i \in 1..Len(input) |-> input[i] * weights[i][j]]
            sum  == (SumTo(prod, Len(input)) \div SCALE)
                    + (IF bias # <<>> THEN bias[j] ELSE 0)
        IN  Activate(activation, sum)]

\* No MathOps.dense call on its own is under way.
NoDense ==
    [input |-> <<>>, weights |-> <<>>, bias |-> <<>>, activation |-> "none",
     returned |-> FALSE, output |-> <<>>]

\* ------------------------------------------------------------------------
\* Weight payloads.  A parsed JSON payload is a record: kind "model" is a
\* ModelWeights object (encoder and decoder, six arrays each), kind "error"
\* is a JSON object that carries neither field (an error body), kind "null"
\* is the engine's initial this.weights = null.
\* ------------------------------------------------------------------------
NullWeights == [kind |-> "null", encoder |-> <<>>, decoder |-> <<>>]

ErrorBody == [kind |-> "error", encoder |-> <<>>, decoder |-> <<>>]

\* The server's global model (GET /get-global-model), topology 4-2-2-1-2-2-4.
GlobalModel ==
    [kind |-> "model",
     encoder |-> << << <<4000, 0>>, <<2000, 6000>>, <<0, 8000>>, <<10000, 4000>> >>,
                    <<200, 0>>,
                    << <<12000, 2000>>, <<4000, 10000>> >>,
                    <<0, 100>>,
                    << <<10000>>, <<8000>> >>,
                    <<50>> >>,
     decoder |-> << << <<16000, 6000>> >>,
                    <<100, 0>>,
                    << <<10000, 4000>>, <<2000, 12000>> >>,
                    <<0, 200>>,
                    << <<8000, 0, 4000, 12000>>, <<0, 6000, 2000, 8000>> >>,
                    <<-2000, -1000, 0, -38000>> >> ]

\* The bundled snapshot model_weights.json: same shape, other final bias.
LocalSnapshot ==
    [GlobalModel EXCEPT !.decoder[6] = <<-2000, -1000, 0, -25000>>]

\* ------------------------------------------------------------------------
\* 7. AI MODEL CLASS (TinyVAE)
\* ------------------------------------------------------------------------
\* constructor: this.weights = null; this.loaded = false
NewTinyVAE == [weights |-> NullWeights, loaded |-> FALSE]

\* Whether predict passes its guard: if (!this.loaded) return null.
PredictReady(engine) == engine.loaded

\* predict(features): kind "null" is the early return, kind "throw" the
\* TypeError of reading this.weights.encoder[0] on a payload without an
\* encoder or input.length on null features, kind "value" the
\* reconstructed vector.
Predict(engine, features) ==
    IF ~PredictReady(engine) THEN [kind |-> "null", out |-> <<>>]
    ELSE IF engine.weights.kind # "model" THEN [kind |-> "throw", out |-> <<>>]
    ELSE IF features = <<>> THEN [kind |-> "throw", out |-> <<>>]
    ELSE LET enc    == engine.weights.encoder
             dec    == engine.weights.decoder
             h1     == Dense(features, enc[1], enc[2], "relu")
             h2     == Dense(h1, enc[3], enc[4], "relu")
             z_mean == Dense(h2, enc[5], enc[6], "linear")
             d1     == Dense(z_mean, dec[1], dec[2], "relu")
             d2     == Dense(d1, dec[3], dec[4], "relu")
             reconstructed == Dense(d2, dec[5], dec[6], "sigmoid")
         IN  [kind |-> "value", out |-> reconstructed]

\* ------------------------------------------------------------------------
\* 3.-5. EXTRACTION.  A page is a record: site (detectSite's answer, "none"
\* for null), productPage (the path matches the site's pattern), seoPrice
\* and domPrice (the price each source parses, NaN when it parses to no
\* number, 0 when the source is absent or parses to zero), and what the
\* product name yields: typeIdx, brandIdx and ram.
\* ------------------------------------------------------------------------
NaN == 0 - 1

NoProduct == [found |-> FALSE, typeIdx |-> 0, brandIdx |-> 0, ram |-> 0, price |-> 0]

ProductOf(page, price) ==
    [found |-> TRUE, typeIdx |-> page.typeIdx, brandIdx |-> page.brandIdx,
     ram |-> page.ram, price |-> price]

\* The page before extractFeatures has read it.
NotRead ==
    [site |-> "none", productPage |-> FALSE, seoPrice |-> 0, domPrice |-> 0,
     typeIdx |-> 0, brandIdx |-> 0, ram |-> 0]

\* extractFromSEOMetadata: a source is taken only if (price > 0 && name)
ExtractFromSEOMetadata(page) ==
    IF page.seoPrice # NaN /\ page.seoPrice > 0
    THEN ProductOf(page, page.seoPrice) ELSE NoProduct

\* extractFromDOM: null if (price === 0 || isNaN(price))
ExtractFromDOM(page) ==
    IF page.site = "none" THEN NoProduct
    ELSE IF page.domPrice = 0 \/ page.domPrice = NaN THEN NoProduct
    ELSE ProductOf(page, page.domPrice)

\* extractFeatures: <<>> is the null result.  price / MAX_PRICE in units of
\* 1/SCALE is price / (MAX_PRICE / SCALE), one unit being 25 rupees.
ExtractFeatures(page) ==
    IF page.site = "none" THEN <<>>
    ELSE IF ~page.productPage THEN <<>>
    ELSE LET seo == ExtractFromSEOMetadata(page)
             productData == IF seo.found THEN seo ELSE ExtractFromDOM(page)
         IN  IF ~productData.found \/ productData.price = 0 \/ productData.price = NaN
             THEN <<>>   \* if (!productData || !productData.price) return null
             ELSE << (productData.typeIdx * SCALE) \div 5,
                     (productData.brandIdx * SCALE) \div 13,
                     (productData.ram * SCALE) \div MAX_RAM,
                     productData.price \div (MAX_PRICE \div SCALE) >>


\* ------------------------------------------------------------------------
\* HTTP.  What `res = await fetch(url); await res.json()` yields for each
\* answer of the server: fetch rejects only when the network fails, and
\* res.json() rejects only when the body is not JSON; the HTTP status is
\* never read.  threw = TRUE is a rejected promise.
\* ------------------------------------------------------------------------
RemoteResponses == {"network_error", "ok", "bad_json", "http500_json", "http500_html"}

LocalResponses == {"ok", "network_error"}

Threw == [threw |-> TRUE, value |-> NullWeights]

\* GET /get-global-model
RemoteJson(resp) ==
    CASE resp = "ok"           -> [threw |-> FALSE, value |-> GlobalModel]
      [] resp = "http500_json" -> [threw |-> FALSE, value |-> ErrorBody]
      [] OTHER                 -> Threw

\* fetch(chrome.runtime.getURL('model_weights.json'))
LocalJson(resp) ==
    IF resp = "ok" THEN [threw |-> FALSE, value |-> LocalSnapshot] ELSE Threw

\* ------------------------------------------------------------------------
\* 7. TinyVAE.loadBrain, called once when the content script starts
\* ------------------------------------------------------------------------
\* Mutant of Loaded: the flag set, the payload not stored.
LoadedWithoutWeights(engine, payload) == [engine EXCEPT !.loaded = TRUE]

\* this.weights = <the parsed payload>; this.loaded = true
Loaded(engine, payload) == [weights |-> payload, loaded |-> TRUE]

\* try { fetch remote; this.weights = await response.json(); this.loaded = true }
\* catch: issue the local fetch
LoadBrainRemote(p) ==
    /\ brain_pc[p] = "remote"
    /\ \E resp \in RemoteResponses :
         LET r == RemoteJson(resp)
         IN  IF r.threw
             THEN /\ brain_pc' = [brain_pc EXCEPT ![p] = "local"]
                  /\ ai' = ai
             ELSE /\ brain_pc' = [brain_pc EXCEPT ![p] = "loaded"]
                  /\ ai' = [ai EXCEPT ![p] = Loaded(@, r.value)]
    /\ UNCHANGED << trainingLogs, clock, site, ra_pc, inputVector,
                    outputVector, popup, log_pc, logEntry, result, popupVars, document, dense >>

\* catch (e) { fetch local; this.weights = await localResp.json(); this.loaded = true }
\* A rejection here leaves loadBrain's promise rejected and unhandled.
LoadBrainLocal(p) ==
    /\ brain_pc[p] = "local"
    /\ \E resp \in LocalResponses :
         LET r == LocalJson(resp)
         IN  IF r.threw
             THEN /\ brain_pc' = [brain_pc EXCEPT ![p] = "failed"]
                  /\ ai' = ai
             ELSE /\ brain_pc' = [brain_pc EXCEPT ![p] = "loaded"]
                  /\ ai' = [ai EXCEPT ![p] = Loaded(@, r.value)]
    /\ UNCHANGED << trainingLogs, clock, site, ra_pc, inputVector,
                    outputVector, popup, log_pc, logEntry, result, popupVars, document, dense >>

\* ------------------------------------------------------------------------
\* 8. MAIN LOGIC (runAnalysis) and 9. logForFederatedLearning
\* ------------------------------------------------------------------------
\* Mutant of Classify: THRESHOLD used for the overpriced branch too.
ClassifyOneThreshold(real, fair) ==
    LET error == Abs(real - fair)
    IN  IF error < MAX_ERROR_CAP
        THEN IF real > fair /\ error > THRESHOLD THEN "overpriced"
             ELSE IF real < fair /\ error > THRESHOLD THEN "deal"
             ELSE "fair"
        ELSE "none"

\* The popup runAnalysis shows for a real and a fair normalised price
\* ("none": no popup).
Classify(real, fair) ==
    LET error == Abs(real - fair)
    IN  IF error < MAX_ERROR_CAP
        THEN IF real > fair /\ error > BIAS_TOLERANCE THEN "overpriced"
             ELSE IF real < fair /\ error > THRESHOLD THEN "deal"
             ELSE "fair"
        ELSE "none"

\* Mutant of ShouldLog: BIAS_TOLERANCE taken for THRESHOLD.
ShouldLogAboveTolerance(error) == error > BIAS_TOLERANCE

\* Mutant of ShouldLog: the log call moved inside the popup's error cap.
ShouldLogWhenShown(error) == error > THRESHOLD /\ error < MAX_ERROR_CAP

\* if (error > CONFIG.THRESHOLD) logForFederatedLearning(...)
ShouldLog(error) == error > THRESHOLD

\* Mutant of LogType: the comparison turned round.
LogTypeSwapped(input, output) ==
    IF input[4] < output[4] THEN "OVERPRICED_BIAS" ELSE "UNDERPRICED_DEAL"

\* type: (input[3] > output[3]) ? "OVERPRICED_BIAS" : "UNDERPRICED_DEAL"
LogType(input, output) ==
    IF input[4] > output[4] THEN "OVERPRICED_BIAS" ELSE "UNDERPRICED_DEAL"

NoEntry ==
    [timestamp |-> 0, site |-> "none", features |-> <<>>,
     reconstruction_error |-> 0, type |-> "none"]

\* the logEntry object logForFederatedLearning builds
NewLogEntry(now, where, input, output, error) ==
    [timestamp |-> now, site |-> where, features |-> input,
     reconstruction_error |-> error, type |-> LogType(input, output)]

\* showColoredPopup: if (document.getElementById('fairmarket-alert')) return
ShowColoredPopup(current, type) == IF current # "none" THEN current ELSE type

\* Mutant of AnalysisReady: the loaded check turned into an unconditional
\* reschedule.
AnalysisReadyNever(engine) == FALSE

\* Mutant of AnalysisReady: the loaded check left out.
AnalysisReadyAlways(engine) == TRUE

\* Whether runAnalysis passes its check: if (!ai.loaded) { setTimeout(...); return }
AnalysisReady(engine) == engine.loaded

\* window 'load': setTimeout(runAnalysis, 3000)
WindowLoad(p) ==
    /\ ra_pc[p] = "init"
    /\ ra_pc' = [ra_pc EXCEPT ![p] = "timer"]
    /\ UNCHANGED << trainingLogs, clock, site, brain_pc, ai, inputVector,
                    outputVector, popup, log_pc, logEntry, result, popupVars, document, dense >>

\* A runAnalysis timer is pending on p: "timer" is the load listener's
\* setTimeout(runAnalysis, 3000), "polling" runAnalysis' own
\* setTimeout(runAnalysis, 500).
Scheduled(p) == ra_pc[p] \in {"timer", "polling"}

\* The timer fires and runAnalysis runs to its first await: it returns on an
\* unknown site, reschedules itself while the engine is not loaded, and
\* otherwise calls extractFeatures.
RunAnalysis(p) ==
    /\ Scheduled(p)
    /\ IF site[p] = "none"
       THEN ra_pc' = [ra_pc EXCEPT ![p] = "returned"]
       ELSE IF ~AnalysisReady(ai[p])
       THEN ra_pc' = [ra_pc EXCEPT ![p] = "polling"]   \* setTimeout(runAnalysis, 500)
       ELSE ra_pc' = [ra_pc EXCEPT ![p] = "extract"]
    /\ UNCHANGED << trainingLogs, clock, site, brain_pc, ai, inputVector,
                    outputVector, popup, log_pc, logEntry, result, popupVars, document, dense >>

\* Mutant of Skipped: the null check left out.
SkippedNever(iv) == FALSE

\* if (!inputVector) return
Skipped(iv) == iv = <<>>

\* extractFeatures resolves and runAnalysis runs to its end: predict, the
\* log decision (logForFederatedLearning builds the entry and issues its
\* storage.get) and the popup decision.  docs are the documents the page
\* may hold.
Analyse(p, docs) ==
    /\ ra_pc[p] = "extract"
    /\ \E page \in docs :
         /\ page.site = site[p]
         /\ document' = [document EXCEPT ![p] = page]
         /\ LET iv == ExtractFeatures(page)
                pr == Predict(ai[p], iv)
            IN  IF Skipped(iv)
                THEN /\ ra_pc' = [ra_pc EXCEPT ![p] = "returned"]
                     /\ UNCHANGED << inputVector, outputVector, popup, log_pc,
                                     logEntry, clock >>
                ELSE IF pr.kind # "value"
                THEN \* predict threw, or returned null and outputVector[3] threw
                     /\ ra_pc' = [ra_pc EXCEPT ![p] = "threw"]
                     /\ inputVector' = [inputVector EXCEPT ![p] = iv]
                     /\ UNCHANGED << outputVector, popup, log_pc, logEntry, clock >>
                ELSE LET ov    == pr.out
                         error == Abs(iv[4] - ov[4])
                     IN  /\ ra_pc' = [ra_pc EXCEPT ![p] = "returned"]
                         /\ inputVector' = [inputVector EXCEPT ![p] = iv]
                         /\ outputVector' = [outputVector EXCEPT ![p] = ov]
                         /\ IF ShouldLog(error)
                            THEN /\ logEntry' = [logEntry EXCEPT ![p] =
                                        NewLogEntry(clock, site[p], iv, ov, error)]
                                 /\ log_pc' = [log_pc EXCEPT ![p] = "get"]
                                 /\ clock' = clock + 1
                            ELSE UNCHANGED << logEntry, log_pc, clock >>
                         /\ popup' = [popup EXCEPT ![p] =
                                IF Classify(iv[4], ov[4]) = "none" THEN @
                                ELSE ShowColoredPopup(@, Classify(iv[4], ov[4]))]
    /\ UNCHANGED << trainingLogs, site, brain_pc, ai, result, popupVars, dense >>

\* chrome.storage.local.get({trainingLogs: []}, ...) is served: the callback
\* is handed the queue as it is now.
LogGet(p) ==
    /\ log_pc[p] = "get"
    /\ result' = [result EXCEPT ![p] = trainingLogs]
    /\ log_pc' = [log_pc EXCEPT ![p] = "callback"]
    /\ UNCHANGED << trainingLogs, clock, site, brain_pc, ai, ra_pc, inputVector, outputVector, popup, logEntry, popupVars, document, dense >>

\* The callback: logs.push(logEntry); chrome.storage.local.set({trainingLogs: logs})
LogCallback(p) ==
    /\ log_pc[p] = "callback"
    /\ trainingLogs' = Append(result[p], logEntry[p])
    /\ log_pc' = [log_pc EXCEPT ![p] = "done"]
    /\ result' = [result EXCEPT ![p] = <<>>]
    /\ UNCHANGED << clock, site, brain_pc, ai, ra_pc, inputVector,
                    outputVector, popup, logEntry, popupVars, document, dense >>


\* ------------------------------------------------------------------------
\* popup.js 4. trainOnLogs
\* ------------------------------------------------------------------------
\* Mutant of TrainsOn: the nudge applied to every log.
TrainsOnEveryLog(log) == TRUE

\* if (log.type === "UNDERPRICED_DEAL")
TrainsOn(log) == log.type = "UNDERPRICED_DEAL"

\* One turn of logs.forEach: every weights[i][j] of the final layer's
\* matrix -= LEARNING_RATE * 0.001, for a log the trainer trains on.
TrainStep(decoder, log) ==
    IF TrainsOn(log)
    THEN LET w == decoder[finalLayerIdx + 1]
         IN  [decoder EXCEPT ![finalLayerIdx + 1] =
                 [i \in DOMAIN w |-> [j \in DOMAIN w[i] |-> w[i][j] - Step]]]
    ELSE decoder

RECURSIVE TrainFold(_, _)
\* logs.forEach(...) from the first log to the last
TrainFold(decoder, logSeq) ==
    IF logSeq = <<>> THEN decoder
    ELSE TrainFold(TrainStep(decoder, Head(logSeq)), Tail(logSeq))

\* Mutant of ArgumentAfter: newDecoder = currentWeights.decoder, no copy, so
\* the loop writes into the argument.
ArgumentAfterAliased(currentWeights, newDecoder) ==
    [currentWeights EXCEPT !.decoder = newDecoder]

\* The object passed in, as it is after the call: newDecoder is
\* JSON.parse(JSON.stringify(currentWeights.decoder)), a copy that shares
\* no array with currentWeights, so the loop's writes do not reach it.
ArgumentAfter(currentWeights, newDecoder) == currentWeights

\* trainOnLogs(currentWeights, logs).  threw: a payload without a decoder
\* makes JSON.parse(undefined) throw.  newDecoder is the value returned,
\* currentWeights the argument object after the call.  The decoder came out
\* of response.json(), arrays of finite numbers, which
\* JSON.parse(JSON.stringify(...)) gives back value for value.
TrainOnLogs(currentWeights, logSeq) ==
    IF currentWeights.kind # "model"
    THEN [threw |-> TRUE, newDecoder |-> <<>>, currentWeights |-> currentWeights]
    ELSE LET newDecoder == TrainFold(currentWeights.decoder, logSeq)
         IN  [threw |-> FALSE, newDecoder |-> newDecoder,
              currentWeights |-> ArgumentAfter(currentWeights, newDecoder)]

\* ------------------------------------------------------------------------
\* popup.js 2. runFederatedCycle, 1. updateStats
\* ------------------------------------------------------------------------
\* What POST /send-update can come to: fetch rejects, response.json()
\* rejects, or resData.status is "success", "accepted", another string
\* ("error") or absent ("no_status").
SendResponses == {"network_error", "bad_json", "success", "accepted", "error", "no_status"}

\* The awaits of the POST threw: no resData to look at.
Thrown(res) == res = "network_error" \/ res = "bad_json"

\* Mutant of Acknowledged: everything but an explicit error status accepted.
AcknowledgedUnlessError(res) == res # "error"

\* if (resData.status === 'success' || resData.status === 'accepted')
Acknowledged(res) == res = "success" \/ res = "accepted"

\* Mutant of NoDataToTrain: the length compared with < for ===.
NoDataToTrainNever(logSeq) == Len(logSeq) < 0

\* if (logs.length === 0)
NoDataToTrain(logSeq) == Len(logSeq) = 0

\* Mutant of SetEnableTimer: the finally block left out.
SetEnableTimerDropped(pending) == pending

\* finally { setTimeout(() => { btn.disabled = false; }, 2000) }: one more
\* enabling timer pending
SetEnableTimer(pending) == pending + 1

\* A click on #trainBtn (a disabled button fires none) starts
\* runFederatedCycle, which runs to its await of storage.get.
Click(c) ==
    /\ pc[c] = "idle"
    /\ ~btnDisabled
    /\ timers + Cardinality({d \in DOMAIN pc : pc[d] # "idle"}) < MaxTimers
    /\ pc' = [pc EXCEPT ![c] = "reading"]
    /\ UNCHANGED << trainingLogs, clock, pageVars, cycleLogs, cycleWeights,
                    updatedDecoder, resData, btnDisabled, status, timers,
                    statsPending, logCount, consoleError >>

\* storage.get resolves: the empty-queue return, or the button is disabled
\* and fetchGlobalWeights issues its remote fetch.
CycleRead(c) ==
    /\ pc[c] = "reading"
    /\ IF NoDataToTrain(trainingLogs)
       THEN /\ status' = "no_data"
            /\ pc' = [pc EXCEPT ![c] = "idle"]
            /\ UNCHANGED << btnDisabled, cycleLogs >>
       ELSE /\ btnDisabled' = TRUE
            /\ status' = "training"
            /\ cycleLogs' = [cycleLogs EXCEPT ![c] = trainingLogs]
            /\ pc' = [pc EXCEPT ![c] = "remote"]
    /\ UNCHANGED << trainingLogs, clock, pageVars, cycleWeights, updatedDecoder,
                    resData, timers, statsPending, logCount, consoleError >>

\* catch (e) { console.error(e); status: error }
\* finally { setTimeout(enable button, 2000) }
\* The invocation ends; its locals are gone.
CycleFail(c) ==
    /\ consoleError' = TRUE
    /\ status' = "error"
    /\ timers' = SetEnableTimer(timers)
    /\ pc' = [pc EXCEPT ![c] = "idle"]
    /\ resData' = [resData EXCEPT ![c] = "none"]
    /\ cycleLogs' = [cycleLogs EXCEPT ![c] = <<>>]
    /\ cycleWeights' = [cycleWeights EXCEPT ![c] = NullWeights]
    /\ updatedDecoder' = [updatedDecoder EXCEPT ![c] = <<>>]
    /\ UNCHANGED << trainingLogs, btnDisabled, statsPending, logCount >>

\* weights are in: trainOnLogs runs and the POST is issued, or it threw.
CycleTrain(c, w) ==
    LET t == TrainOnLogs(w, cycleLogs[c])
    IN  IF t.threw
        THEN CycleFail(c)
        ELSE /\ cycleWeights' = [cycleWeights EXCEPT ![c] = t.currentWeights]
             /\ updatedDecoder' = [updatedDecoder EXCEPT ![c] = t.newDecoder]
             /\ status' = "sending"
             /\ pc' = [pc EXCEPT ![c] = "sending"]
             /\ UNCHANGED << trainingLogs, cycleLogs, resData, btnDisabled, timers,
                             statsPending, logCount, consoleError >>

\* fetchGlobalWeights, try: the remote fetch and its res.json() settle.
CycleRemote(c) ==
    /\ pc[c] = "remote"
    /\ \E resp \in RemoteResponses :
         LET r == RemoteJson(resp)
         IN  IF r.threw
             THEN /\ pc' = [pc EXCEPT ![c] = "local"]
                  /\ UNCHANGED << trainingLogs, cycleLogs, cycleWeights,
                                  updatedDecoder, resData, btnDisabled, status,
                                  timers, statsPending, logCount, consoleError >>
             ELSE CycleTrain(c, r.value)
    /\ UNCHANGED << clock, pageVars >>

\* fetchGlobalWeights, catch: the local fetch and its res.json() settle.
CycleLocal(c) ==
    /\ pc[c] = "local"
    /\ \E resp \in LocalResponses :
         LET r == LocalJson(resp)
         IN  IF r.threw THEN CycleFail(c) ELSE CycleTrain(c, r.value)
    /\ UNCHANGED << clock, pageVars >>

\* POST /send-update settles: fetch rejects, response.json() rejects, or
\* resData is at hand.
CycleSend(c) ==
    /\ pc[c] = "sending"
    /\ \E res \in SendResponses :
         /\ resData' = [resData EXCEPT ![c] = res]
         /\ pc' = [pc EXCEPT ![c] = "sent"]
    /\ UNCHANGED << trainingLogs, clock, pageVars, cycleLogs, cycleWeights,
                    updatedDecoder, btnDisabled, status, timers, statsPending,
                    logCount, consoleError >>

\* The invocation resumes after the POST.  On an acknowledgement: status,
\* then chrome.storage.local.set({trainingLogs: []}) and updateStats();
\* otherwise throw, into catch.  The finally block runs on every path.
CycleFinish(c) ==
    /\ pc[c] = "sent"
    /\ IF ~Thrown(resData[c]) /\ Acknowledged(resData[c])
       THEN /\ status' = "complete"
            /\ trainingLogs' = <<>>
            /\ statsPending' = statsPending + 1
            /\ timers' = SetEnableTimer(timers)
            /\ pc' = [pc EXCEPT ![c] = "idle"]
            /\ resData' = [resData EXCEPT ![c] = "none"]
            /\ cycleLogs' = [cycleLogs EXCEPT ![c] = <<>>]
            /\ cycleWeights' = [cycleWeights EXCEPT ![c] = NullWeights]
            /\ updatedDecoder' = [updatedDecoder EXCEPT ![c] = <<>>]
            /\ UNCHANGED << btnDisabled, logCount, consoleError >>
       ELSE CycleFail(c)
    /\ UNCHANGED << clock, pageVars >>

\* setTimeout(() => { btn.disabled = false; }, 2000) fires
EnableTimer ==
    /\ timers > 0
    /\ timers' = timers - 1
    /\ btnDisabled' = FALSE
    /\ UNCHANGED << trainingLogs, clock, pageVars, pc, cycleLogs, cycleWeights,
                    updatedDecoder, resData, status, statsPending, logCount,
                    consoleError >>

\* updateStats' storage.get callback: logCount shows the queue's length
UpdateStats ==
    /\ statsPending > 0
    /\ statsPending' = statsPending - 1
    /\ logCount' = Len(trainingLogs)
    /\ UNCHANGED << trainingLogs, clock, pageVars, pc, cycleLogs, cycleWeights,
                    updatedDecoder, resData, btnDisabled, status, timers,
                    consoleError >>


\* ------------------------------------------------------------------------
\* Inputs: the documents a page may hold, the queue earlier sessions left
\* ------------------------------------------------------------------------
PageDoc(s, isProduct, seo, dom) ==
    [site |-> s, productPage |-> isProduct, seoPrice |-> seo, domPrice |-> dom,
     typeIdx |-> 2, brandIdx |-> 4, ram |-> 16]

\* Prices (rupees) whose reconstruction error under GlobalModel or under
\* LocalSnapshot lies at and next to THRESHOLD, BIAS_TOLERANCE and
\* MAX_ERROR_CAP, on either side of the fair price.
EdgePrices ==
    {11025, 11050, 16150, 16175, 18725, 21275, 21300, 26400, 26425, 95450, 95475,
     25125, 25150, 94175, 99300, 101875, 104425, 109525, 109550, 178575, 178600}

SupportedSites == {"amazon", "flipkart"}

\* A listing at 600000 rupees, above MAX_PRICE, and a name that says
\* "128GB RAM", above MAX_RAM
OverMaxPrice == MAX_PRICE + 100000

OverMaxRam == 2 * MAX_RAM

\* Documents of the single-page specification: every edge price from the
\* SEO metadata or from the DOM, pages without a usable price, and pages
\* that are no product page.
AnalysisDocs ==
    {PageDoc(s, TRUE, pr, 0) : s \in SupportedSites, pr \in EdgePrices}
    \cup {PageDoc(s, TRUE, 0, pr) : s \in SupportedSites, pr \in {16150, 26425}}
    \cup {PageDoc(s, TRUE, seo, dom) : s \in SupportedSites, seo \in {0, NaN}, dom \in {0, NaN}}
    \cup {PageDoc(s, FALSE, 16150, 0) : s \in SupportedSites}
    \cup {PageDoc(s, TRUE, OverMaxPrice, 0) : s \in SupportedSites}
    \cup {[PageDoc(s, TRUE, 16150, 0) EXCEPT !.ram = OverMaxRam] : s \in SupportedSites}

\* Documents of the whole-system specification: a deal, an overpriced
\* page, a fair page and a page without a price.
SystemDocs ==
    {PageDoc("amazon", TRUE, pr, 0) : pr \in {16150, 18725, 26425}}
    \cup {PageDoc("amazon", TRUE, 0, NaN)}

\* An entry an earlier page visit left in the queue: a deal under GlobalModel.
OldEntry ==
    LET iv == ExtractFeatures(PageDoc("amazon", TRUE, 16150, 0))
        ov == Predict([weights |-> GlobalModel, loaded |-> TRUE], iv).out
    IN  NewLogEntry(0, "amazon", iv, ov, Abs(iv[4] - ov[4]))

InitQueues == {<<>>, <<OldEntry>>}

\* ------------------------------------------------------------------------
\* Specifications
\* ------------------------------------------------------------------------
\* Content scripts P just started on pages of the given sites: ai = new
\* TinyVAE(), ai.loadBrain() has issued its remote fetch, the load listener
\* is registered.
InitPages(P, sites) ==
    /\ site \in [P -> sites]
    /\ brain_pc = [p \in P |-> "remote"]
    /\ ai = [p \in P |-> NewTinyVAE]
    /\ ra_pc = [p \in P |-> "init"]
    /\ inputVector = [p \in P |-> <<>>]
    /\ outputVector = [p \in P |-> <<>>]
    /\ popup = [p \in P |-> "none"]
    /\ log_pc = [p \in P |-> "idle"]
    /\ logEntry = [p \in P |-> NoEntry]
    /\ result = [p \in P |-> <<>>]
    /\ document = [p \in P |-> NotRead]

\* The popup with invocation slots C; opened = TRUE: its DOMContentLoaded
\* has called updateStats.
InitPopup(C, opened) ==
    /\ pc = [c \in C |-> "idle"]
    /\ cycleLogs = [c \in C |-> <<>>]
    /\ cycleWeights = [c \in C |-> NullWeights]
    /\ updatedDecoder = [c \in C |-> <<>>]
    /\ resData = [c \in C |-> "none"]
    /\ btnDisabled = FALSE
    /\ status = "ready"
    /\ timers = 0
    /\ statsPending = IF opened THEN 1 ELSE 0
    /\ logCount = 0
    /\ consoleError = FALSE

InitStorage ==
    /\ trainingLogs \in InitQueues
    /\ clock = 1

Pages == 1..NumPages

\* Invocation slots of runFederatedCycle.  With one slot a click is taken
\* only when no invocation is alive; invocations that overlap (a second
\* click before the first invocation has disabled the button) need a
\* second slot.
Cycles == {1}

\* The whole system: pages, the popup, the storage they share.
Init ==
    /\ InitStorage
    /\ InitPages(Pages, {"amazon"})
    /\ InitPopup(Cycles, TRUE)
    /\ dense = NoDense

Next ==
    \/ \E p \in Pages : LoadBrainRemote(p)
    \/ \E p \in Pages : LoadBrainLocal(p)
    \/ \E p \in Pages : WindowLoad(p)
    \/ \E p \in Pages : RunAnalysis(p)
    \/ \E p \in Pages : Analyse(p, SystemDocs)
    \/ \E p \in Pages : LogGet(p)
    \/ \E p \in Pages : LogCallback(p)
    \/ \E c \in Cycles : Click(c)
    \/ \E c \in Cycles : CycleRead(c)
    \/ \E c \in Cycles : CycleRemote(c)
    \/ \E c \in Cycles : CycleLocal(c)
    \/ \E c \in Cycles : CycleSend(c)
    \/ \E c \in Cycles : CycleFinish(c)
    \/ EnableTimer
    \/ UpdateStats

Spec == Init /\ [][Next]_vars

\* One page on any site, every document, the popup closed.
InitPage ==
    /\ InitStorage
    /\ InitPages({1}, SupportedSites \cup {"none"})
    /\ InitPopup({}, FALSE)
    /\ dense = NoDense

NextPage ==
    \/ LoadBrainRemote(1)
    \/ LoadBrainLocal(1)
    \/ WindowLoad(1)
    \/ RunAnalysis(1)
    \/ Analyse(1, AnalysisDocs)
    \/ LogGet(1)
    \/ LogCallback(1)

PageSpec == InitPage /\ [][NextPage]_vars


\* ------------------------------------------------------------------------
\* trainOnLogs on its own: every payload, every log sequence up to MaxLogLen
\* ------------------------------------------------------------------------
\* A model whose final layer has one input: topology 4-2-2-1-2-1-4.
NarrowModel ==
    [GlobalModel EXCEPT !.decoder[3] = << <<10000>>, <<2000>> >>,
                        !.decoder[4] = <<0>>,
                        !.decoder[5] = << <<8000, 0, -4000, 12000>> >>]

\* An entry of an overpriced page under GlobalModel.
OverEntry ==
    LET iv == ExtractFeatures(PageDoc("flipkart", TRUE, 26425, 0))
        ov == Predict([weights |-> GlobalModel, loaded |-> TRUE], iv).out
    IN  NewLogEntry(0, "flipkart", iv, ov, Abs(iv[4] - ov[4]))

\* An entry of a deal under LocalSnapshot.
DealEntry ==
    LET iv == ExtractFeatures(PageDoc("flipkart", TRUE, 94175, 0))
        ov == Predict([weights |-> LocalSnapshot, loaded |-> TRUE], iv).out
    IN  NewLogEntry(0, "flipkart", iv, ov, Abs(iv[4] - ov[4]))

TrainEntries == {OldEntry, OverEntry, DealEntry}

TrainWeights == {GlobalModel, LocalSnapshot, NarrowModel, ErrorBody}

SeqsUpTo(S, n) == UNION {[1..k -> S] : k \in 0..n}

\* let updatedDecoder = trainOnLogs(weights, logs), alone
TrainCall(c) ==
    /\ pc[c] = "train"
    /\ LET t == TrainOnLogs(cycleWeights[c], cycleLogs[c])
       IN  /\ cycleWeights' = [cycleWeights EXCEPT ![c] = t.currentWeights]
           /\ updatedDecoder' = [updatedDecoder EXCEPT ![c] = t.newDecoder]
           /\ pc' = [pc EXCEPT ![c] = IF t.threw THEN "threw" ELSE "trained"]
    /\ UNCHANGED << trainingLogs, clock, pageVars, cycleLogs, resData, btnDisabled,
                    status, timers, statsPending, logCount, consoleError >>

InitTrain ==
    /\ trainingLogs = <<>>
    /\ clock = 1
    /\ InitPages({}, {"none"})
    /\ pc = [c \in Cycles |-> "train"]
    /\ cycleLogs \in [Cycles -> SeqsUpTo(TrainEntries, MaxLogLen)]
    /\ cycleWeights \in [Cycles -> TrainWeights]
    /\ updatedDecoder = [c \in Cycles |-> <<>>]
    /\ resData = [c \in Cycles |-> "none"]
    /\ btnDisabled = TRUE
    /\ status = "training"
    /\ timers = 0
    /\ statsPending = 0
    /\ logCount = 0
    /\ consoleError = FALSE
    /\ dense = NoDense

NextTrain == \E c \in Cycles : TrainCall(c)

TrainSpec == InitTrain /\ [][NextTrain]_vars


\* ------------------------------------------------------------------------
\* The content script under fair scheduling: a fetch that was issued
\* settles (it resolves or rejects), a timer that was set fires, a storage
\* call that was issued is served
\* ------------------------------------------------------------------------
FairPageSpec ==
    /\ InitPage
    /\ [][NextPage]_vars
    /\ WF_vars(LoadBrainRemote(1))
    /\ WF_vars(LoadBrainLocal(1))
    /\ WF_vars(WindowLoad(1))
    /\ WF_vars(RunAnalysis(1))
    /\ WF_vars(Analyse(1, AnalysisDocs))
    /\ WF_vars(LogGet(1))
    /\ WF_vars(LogCallback(1))

\* ------------------------------------------------------------------------
\* MathOps.dense on its own: every layer of the model, inputs as long as
\* the matrix has rows or one shorter, with and without a bias, every
\* activation
\* ------------------------------------------------------------------------
DenseMatrices ==
    {GlobalModel.encoder[1], GlobalModel.encoder[3], GlobalModel.encoder[5],
     GlobalModel.decoder[1], GlobalModel.decoder[5]}

DenseInputs(weights) ==
    [1..Len(weights) -> {0 - (SCALE \div 2), SCALE}]
    \cup [1..(Len(weights) - 1) -> {SCALE}]

\* no bias, and a bias of -0.15 on every output
DenseBiases(weights) == {<<>>, [j \in 1..Len(weights[1]) |-> 0 - MAX_ERROR_CAP]}

DenseActivations == {"relu", "sigmoid", "linear"}

InitDense ==
    /\ trainingLogs = <<>>
    /\ clock = 1
    /\ InitPages({}, {"none"})
    /\ InitPopup({}, FALSE)
    /\ \E w \in DenseMatrices : \E x \in DenseInputs(w) :
       \E b \in DenseBiases(w) : \E a \in DenseActivations :
           dense = [input |-> x, weights |-> w, bias |-> b, activation |-> a,
                    returned |-> FALSE, output |-> <<>>]

\* output = MathOps.dense(input, weights, bias, activation)
DenseCall ==
    /\ ~dense.returned
    /\ dense.activation # "none"
    /\ dense' = [dense EXCEPT
                    !.returned = TRUE,
                    !.output = Dense(dense.input, dense.weights, dense.bias,
                                     dense.activation)]
    /\ UNCHANGED << trainingLogs, clock, site, brain_pc, ai, ra_pc, inputVector,
                    outputVector, popup, log_pc, logEntry, result, document,
                    popupVars >>

NextDense == DenseCall

DenseSpec == InitDense /\ [][NextDense]_vars

\* ------------------------------------------------------------------------
\* The popup on its own, clicked at any time: a second click can come while
\* the first invocation still awaits its storage.get
\* ------------------------------------------------------------------------
Clicks == {1, 2}

InitClick ==
    /\ InitStorage
    /\ InitPages({}, {"none"})
    /\ InitPopup(Clicks, TRUE)
    /\ dense = NoDense

NextClick ==
    \/ \E c \in Clicks : Click(c)
    \/ \E c \in Clicks : CycleRead(c)
    \/ \E c \in Clicks : CycleRemote(c)
    \/ \E c \in Clicks : CycleLocal(c)
    \/ \E c \in Clicks : CycleSend(c)
    \/ \E c \in Clicks : CycleFinish(c)
    \/ EnableTimer
    \/ UpdateStats

ClickSpec == InitClick /\ [][NextClick]_vars


\* ========================================================================
\* Claims
\* ========================================================================
Range(q) == {q[n] : n \in 1..Len(q)}

Last(q) == q[Len(q)]

\* |real - fair| of page p's finished analysis
ErrorOf(p) == Abs(inputVector[p][4] - outputVector[p][4])

\* runAnalysis on p got as far as its classification
Analysed(p) == outputVector[p] # <<>>

\* C1: a step of runFederatedCycle changes the persisted queue only when it
\* resumes after the POST with resData.status 'success' or 'accepted', and
\* then it sets the queue to empty; resuming with any other status, with no
\* status, after a JSON parse failure or a rejected fetch, and every step
\* of the weight fetch (failing or not), leaves the queue as it was.
Thm_C1_ClearedIffAcknowledged ==
    [][\A c \in DOMAIN pc :
         /\ (pc[c] = "sent" /\ pc'[c] # "sent")
              => IF resData[c] \in {"success", "accepted"}
                 THEN trainingLogs' = <<>>
                 ELSE trainingLogs' = trainingLogs
         /\ (pc[c] \in {"idle", "reading", "remote", "local", "sending"}
                /\ pc'[c] # pc[c])
              => trainingLogs' = trainingLogs]_vars

\* C1 witness: a cycle over a non-empty queue was acknowledged and the
\* queue is empty, the refresh of the count still pending.
Wit_C1_Cleared ==
    /\ status = "complete"
    /\ trainingLogs = <<>>
    /\ statsPending > 0
    /\ timers > 0

\* C2: every entry a step removes from the persisted queue was in the log
\* snapshot of an invocation that resumes in that step after an
\* acknowledged POST.
Cex_C2_AtLeastOnce ==
    [][\A n \in 1..Len(trainingLogs) :
         trainingLogs[n] \notin Range(trainingLogs')
         => \E c \in DOMAIN pc :
              /\ pc[c] = "sent" /\ pc'[c] = "idle"
              /\ resData[c] \in {"success", "accepted"}
              /\ trainingLogs[n] \in Range(cycleLogs[c])]_vars

\* C3: the queue behaves as if appends and clears ran one after the other:
\* the write of every logForFederatedLearning call leaves the queue equal
\* to the queue just before it with the call's entry appended.
Cex_C3_SequentialQueue ==
    [][\A p \in DOMAIN log_pc :
         (log_pc[p] = "callback" /\ log_pc'[p] = "done")
         => trainingLogs' = Append(trainingLogs, logEntry[p])]_vars

\* C4: the weights an engine has loaded are the server's ModelWeights
\* payload or the bundled snapshot, whatever way the remote fetch failed.
Cex_C4_FallbackOnAnyFailure ==
    \A p \in DOMAIN ai :
        ai[p].loaded => ai[p].weights \in {GlobalModel, LocalSnapshot}

\* C5, in every state: a reconstruction exists only with loaded true and
\* weights set, and predict returns null while loaded is false; while
\* loaded is false runAnalysis has extracted nothing, classified nothing,
\* shown no popup and logged nothing; with both weight sources failed the
\* engine is not loaded, nothing is shown, and a scheduled runAnalysis on a
\* known site can run again.
Inv_C5 ==
    \A p \in DOMAIN ai :
        /\ Analysed(p) => ai[p].loaded /\ ai[p].weights.kind # "null"
        /\ ~ai[p].loaded =>
              /\ Predict(ai[p], <<0, 0, 0, 0>>).kind = "null"
              /\ ra_pc[p] \in {"init", "timer", "polling", "returned"}
              /\ ra_pc[p] = "returned" => site[p] = "none"
              /\ inputVector[p] = <<>> /\ outputVector[p] = <<>>
              /\ popup[p] = "none"
              /\ log_pc[p] = "idle" /\ logEntry[p] = NoEntry
        /\ brain_pc[p] = "failed" =>
              /\ ~ai[p].loaded
              /\ (Scheduled(p) /\ site[p] # "none") => ENABLED RunAnalysis(p)

\* C5, in every step: while loaded is false a runAnalysis on a known site
\* stays scheduled and changes nothing else, the queue included; once both
\* weight sources have failed the engine stays failed and never loads.
Step_C5 ==
    \A p \in DOMAIN ai :
        /\ (~ai[p].loaded /\ ~ai'[p].loaded /\ Scheduled(p) /\ site[p] # "none")
              => /\ ra_pc'[p] \in {"timer", "polling"}
                 /\ trainingLogs' = trainingLogs
        /\ brain_pc[p] = "failed" => brain_pc'[p] = "failed" /\ ~ai'[p].loaded

\* C5: no inference before the engine is LOADED (Inv_C5 in every state,
\* Step_C5 in every step).
Thm_C5_NoInferenceBeforeLoaded == []Inv_C5 /\ [][Step_C5]_vars

\* C5 witness: both weight sources failed and runAnalysis is polling.
Wit_C5_PollingAfterBothFailed ==
    \E p \in DOMAIN ai :
        /\ brain_pc[p] = "failed"
        /\ ra_pc[p] = "polling"
        /\ site[p] # "none"

Thm_C7_LoggedIffAboveThreshold ==
    \A p \in DOMAIN log_pc :
        /\ Analysed(p) =>
              /\ log_pc[p] # "idle" <=> ErrorOf(p) > THRESHOLD
              /\ logEntry[p] # NoEntry <=> ErrorOf(p) > THRESHOLD
              /\ log_pc[p] # "idle" =>
                    /\ logEntry[p].features = inputVector[p]
                    /\ logEntry[p].reconstruction_error = ErrorOf(p)
              /\ log_pc[p] = "idle" => trainingLogs \in InitQueues
        /\ log_pc[p] = "done" =>
              /\ trainingLogs # <<>>
              /\ Last(trainingLogs) = logEntry[p]

\* C7 witness: error >= MAX_ERROR_CAP, no popup, and the entry is in the queue.
Wit_C7_LoggedWithoutPopup ==
    \E p \in DOMAIN log_pc :
        /\ Analysed(p)
        /\ ErrorOf(p) >= MAX_ERROR_CAP
        /\ popup[p] = "none"
        /\ log_pc[p] = "done"
        /\ Last(trainingLogs) = logEntry[p]

\* C8: an analysis shown as 'overpriced' has created an OVERPRICED_BIAS
\* entry, one shown as 'deal' an UNDERPRICED_DEAL entry.
Thm_C8_TypeAgreesWithPopup ==
    \A p \in DOMAIN popup :
        /\ popup[p] = "overpriced" =>
              log_pc[p] # "idle" /\ logEntry[p].type = "OVERPRICED_BIAS"
        /\ popup[p] = "deal" =>
              log_pc[p] # "idle" /\ logEntry[p].type = "UNDERPRICED_DEAL"

\* C8 witness: a 'deal' popup whose UNDERPRICED_DEAL entry is in the queue.
Wit_C8_DealLogged ==
    \E p \in DOMAIN popup :
        /\ popup[p] = "deal"
        /\ log_pc[p] = "done"
        /\ Last(trainingLogs).type = "UNDERPRICED_DEAL"
        /\ Last(trainingLogs).features = inputVector[p]

\* Number of UNDERPRICED_DEAL entries of a log sequence
Deals(logSeq) == Cardinality({n \in 1..Len(logSeq) : logSeq[n].type = "UNDERPRICED_DEAL"})

\* C9: for a decoder and a log sequence with k UNDERPRICED_DEAL entries,
\* every weight of the returned final-layer matrix is the input weight
\* minus k steps of LEARNING_RATE * 0.001 (one unit); with OVERPRICED_BIAS
\* entries only, the returned decoder is the input decoder.
Thm_C9_OneStepPerDeal ==
    [][\A c \in DOMAIN pc :
         (pc[c] = "train" /\ pc'[c] = "trained") =>
            LET given == cycleWeights[c].decoder
                got   == updatedDecoder'[c]
                k     == Deals(cycleLogs[c])
            IN  /\ DOMAIN got[5] = DOMAIN given[5]
                /\ \A i \in DOMAIN given[5] :
                     /\ DOMAIN got[5][i] = DOMAIN given[5][i]
                     /\ \A j \in DOMAIN given[5][i] :
                          got[5][i][j] = given[5][i][j] - k * Step
                /\ k = 0 => got = given]_vars

\* C9 witness: a call with two UNDERPRICED_DEAL entries and an
\* OVERPRICED_BIAS entry has returned, the weights two steps lower.
Wit_C9_TwoDeals ==
    \E c \in DOMAIN pc :
        /\ pc[c] = "trained"
        /\ Len(cycleLogs[c]) = 3
        /\ Deals(cycleLogs[c]) = 2
        /\ updatedDecoder[c][5][1][1] = cycleWeights[c].decoder[5][1][1] - 2 * Step

\* C10: trainOnLogs leaves the weights object it was given as it was, and
\* in the decoder it returns the arrays at JS indices 0 to 3 and 5 equal
\* the input's.
Thm_C10_OnlyFinalMatrix ==
    [][\A c \in DOMAIN pc :
         (pc[c] = "train" /\ pc'[c] # "train") =>
            /\ cycleWeights'[c] = cycleWeights[c]
            /\ pc'[c] = "trained" =>
                  /\ Len(updatedDecoder'[c]) = 6
                  /\ \A n \in {1, 2, 3, 4, 6} :
                       updatedDecoder'[c][n] = cycleWeights[c].decoder[n]]_vars

\* C10 witness: a call that changed the final matrix has returned, the
\* argument and the other arrays as given.
Wit_C10_FinalMatrixChanged ==
    \E c \in DOMAIN pc :
        /\ pc[c] = "trained"
        /\ updatedDecoder[c][5] # cycleWeights[c].decoder[5]
        /\ updatedDecoder[c][6] = cycleWeights[c].decoder[6]
        /\ cycleWeights[c] \in TrainWeights

\* The invocation c is past its empty-queue check and has not ended.
InFlight(c) == pc[c] \in {"remote", "local", "sending", "sent"}

\* C11: an invocation whose storage.get is served an empty queue shows the
\* 'No data to train on' warning and returns: it issues no weight fetch
\* and no POST, leaves the queue empty, does not disable the button and
\* sets no timer.
Thm_C11_NoDataNoNetwork ==
    [][\A c \in DOMAIN pc :
         (pc[c] = "reading" /\ pc'[c] # "reading" /\ trainingLogs = <<>>)
         => /\ status' = "no_data"
            /\ pc'[c] = "idle"
            /\ trainingLogs' = <<>>
            /\ btnDisabled' = btnDisabled
            /\ timers' = timers
            /\ cycleLogs'[c] = <<>>
            /\ cycleWeights'[c] = NullWeights
            /\ updatedDecoder'[c] = <<>>
            /\ resData'[c] = "none"
            /\ consoleError' = consoleError]_vars

\* C11 witness: an invocation has returned with the warning, the queue
\* empty, the button enabled, no timer pending and nothing ever sent.
Wit_C11_Warned ==
    /\ status = "no_data"
    /\ \A c \in DOMAIN pc : pc[c] = "idle"
    /\ trainingLogs = <<>>
    /\ ~btnDisabled
    /\ timers = 0
    /\ ~consoleError

\* C12, in every state: a disabled button has an invocation in flight or an
\* enabling timer pending; an ended invocation leaves nothing of itself
\* behind; with no invocation alive and the button enabled a click is
\* taken, whatever failed before and whatever the pages did.
Inv_C12 ==
    /\ btnDisabled => (timers > 0 \/ \E c \in DOMAIN pc : InFlight(c))
    /\ \A c \in DOMAIN pc :
         pc[c] = "idle" =>
            /\ cycleLogs[c] = <<>>
            /\ cycleWeights[c] = NullWeights
            /\ updatedDecoder[c] = <<>>
            /\ resData[c] = "none"
    /\ ((\A c \in DOMAIN pc : pc[c] = "idle") /\ ~btnDisabled)
         => \E c \in DOMAIN pc : ENABLED Click(c)

\* C12, in every step: an invocation that ends in an error leaves the queue
\* as it was and sets the enabling timer; after an error, an invocation
\* that finds a non-empty queue goes on to the weight fetch, and one that
\* is answered 'success' or 'accepted' completes and clears the queue.
Step_C12 ==
    \A c \in DOMAIN pc :
        /\ (InFlight(c) /\ pc'[c] = "idle" /\ status' = "error")
              => /\ trainingLogs' = trainingLogs
                 /\ timers' = timers + 1
                 /\ consoleError'
        /\ (consoleError /\ pc[c] = "reading" /\ pc'[c] # "reading"
               /\ trainingLogs # <<>>)
              => /\ pc'[c] = "remote"
                 /\ cycleLogs'[c] = trainingLogs
        /\ (consoleError /\ pc[c] = "sent" /\ pc'[c] # "sent"
               /\ resData[c] \in {"success", "accepted"})
              => /\ status' = "complete"
                 /\ trainingLogs' = <<>>
                 /\ pc'[c] = "idle"

\* C12: a failure is scoped to its cycle (Inv_C12 in every state, Step_C12
\* in every step).
Thm_C12_FailureScopedToCycle == []Inv_C12 /\ [][Step_C12]_vars

\* C12 witness: after a cycle that ended in an error and an analysis that
\* threw, a later cycle has completed and cleared the queue.
Wit_C12_CompletedAfterError ==
    /\ consoleError
    /\ status = "complete"
    /\ trainingLogs = <<>>
    /\ \A c \in DOMAIN pc : pc[c] = "idle"
    /\ \E p \in DOMAIN ra_pc : ra_pc[p] = "threw"

\* C13: the button is disabled as long as an invocation is in flight, and
\* a disabled button with no invocation in flight has its enabling timer
\* pending.
Cex_C13_DisabledWholeCycle ==
    /\ \A c \in DOMAIN pc : InFlight(c) => btnDisabled
    /\ (btnDisabled /\ \A c \in DOMAIN pc : ~InFlight(c)) => timers > 0

\* C20: at most one invocation is past its empty-queue check at a time.
Cex_C20_OneCycleInFlight ==
    Cardinality({c \in DOMAIN pc : InFlight(c)}) <= 1

\* C14: every feature vector extractFeatures returned has its four
\* components in [0, 1].
Cex_C14_FeaturesInUnitRange ==
    \A p \in DOMAIN inputVector :
        inputVector[p] # <<>> =>
            \A n \in 1..4 : inputVector[p][n] >= 0 /\ inputVector[p][n] <= SCALE

\* A price no source can use: zero or not a number.
InvalidPrice(price) == price = 0 \/ price = NaN

\* C15: on a page whose SEO metadata and DOM both yield a price that is
\* zero or not a number, extractFeatures has returned null and runAnalysis
\* has returned without a throw, with no reconstruction, no popup, no log
\* entry built and the queue as the page found it.
Thm_C15_InvalidPriceSkipsPage ==
    \A p \in DOMAIN document :
        (/\ document[p] # NotRead
         /\ InvalidPrice(document[p].seoPrice)
         /\ InvalidPrice(document[p].domPrice))
        => /\ ExtractFeatures(document[p]) = <<>>
           /\ ra_pc[p] = "returned"
           /\ inputVector[p] = <<>>
           /\ outputVector[p] = <<>>
           /\ popup[p] = "none"
           /\ log_pc[p] = "idle"
           /\ logEntry[p] = NoEntry
           /\ trainingLogs \in InitQueues

\* C15 witness: a loaded engine, a product page whose metadata holds no
\* price and whose DOM price parses to NaN, and runAnalysis has returned.
Wit_C15_SkippedOnNaN ==
    \E p \in DOMAIN document :
        /\ ai[p].loaded
        /\ document[p].productPage
        /\ document[p].seoPrice = 0
        /\ document[p].domPrice = NaN
        /\ ra_pc[p] = "returned"
        /\ inputVector[p] = <<>>

\* C17: the vector a dense call returned has as many entries as the weight
\* matrix has columns, for every activation, with and without a bias.
Thm_C17_OutputWidth ==
    dense.returned =>
        /\ DOMAIN dense.output = 1..Len(dense.weights[1])
        /\ Len(dense.output) = Len(dense.weights[1])

\* C17 witness: a call without bias on a 2 x 4 matrix has returned four
\* sigmoid outputs.
Wit_C17_NoBiasRectangular ==
    /\ dense.returned
    /\ dense.bias = <<>>
    /\ dense.activation = "sigmoid"
    /\ Len(dense.weights) = 2
    /\ Len(dense.output) = 4

\* C18: loadBrain's fetches settle, and unless both of them fail the engine
\* is eventually loaded; a runAnalysis that has started polling eventually
\* goes on to extractFeatures unless both fetches fail; having gone on, it
\* is never scheduled again and calls extractFeatures no second time.
Thm_C18_LoadedThenExtractOnce ==
    /\ (brain_pc[1] = "remote") ~> (brain_pc[1] \in {"loaded", "local"})
    /\ (brain_pc[1] = "local") ~> (brain_pc[1] \in {"loaded", "failed"})
    /\ <>(brain_pc[1] = "failed" \/ ai[1].loaded)
    /\ [](brain_pc[1] = "loaded" => ai[1].loaded)
    /\ (ra_pc[1] = "polling") ~> (ra_pc[1] = "extract" \/ brain_pc[1] = "failed")
    /\ [][/\ ra_pc[1] \in {"extract", "returned", "threw"}
               => ra_pc'[1] \notin {"init", "timer", "polling"}
          /\ ra_pc[1] \in {"returned", "threw"} => ra_pc'[1] = ra_pc[1]
          /\ ra_pc'[1] = "extract"
               => (ai[1].loaded /\ ra_pc[1] \in {"timer", "polling", "extract"})]_vars

\* C18 witness: runAnalysis started polling before the engine was loaded,
\* and the engine is now loaded from the local snapshot.
Wit_C18_PollingWhenLoaded ==
    /\ ra_pc[1] = "polling"
    /\ brain_pc[1] = "loaded"
    /\ ai[1].loaded
    /\ ai[1].weights = LocalSnapshot

\* What a weight fetch can hand to loadBrain.
FetchedPayloads ==
    {RemoteJson(resp).value : resp \in {r \in RemoteResponses : ~RemoteJson(r).threw}}
    \cup {LocalJson(resp).value : resp \in {r \in LocalResponses : ~LocalJson(r).threw}}

\* C19, in every state: until loadBrain has stored a payload loaded is
\* false and weights null; loaded = true comes with weights that are a
\* fetched payload.
Inv_C19 ==
    \A p \in DOMAIN ai :
        /\ brain_pc[p] \in {"remote", "local", "failed"}
              => (~ai[p].loaded /\ ai[p].weights = NullWeights)
        /\ ai[p].loaded
              => (brain_pc[p] = "loaded" /\ ai[p].weights \in FetchedPayloads)

\* C19, in every step: loaded never goes back to false, and once it is
\* true weights is never assigned again.
Step_C19 ==
    \A p \in DOMAIN ai :
        ai[p].loaded => (ai'[p].loaded /\ ai'[p].weights = ai[p].weights)

\* C19: the load state only moves forward (Inv_C19 in every state,
\* Step_C19 in every step).
Thm_C19_LoadStateForward == []Inv_C19 /\ [][Step_C19]_vars

\* C19 witness: an engine loaded from the local snapshot has run an
\* inference, its weights still that snapshot.
Wit_C19_LoadedFromSnapshot ==
    \E p \in DOMAIN ai :
        /\ ai[p].loaded
        /\ ai[p].weights = LocalSnapshot
        /\ Analysed(p)

\* C21: an analysis shown as 'fair' has built no log entry and issued no
\* append.
Cex_C21_FairNeverLogged ==
    \A p \in DOMAIN popup :
        popup[p] = "fair" => (log_pc[p] = "idle" /\ logEntry[p] = NoEntry)

\* C21, amended: an analysis shown as 'fair' has built a log entry and
\* issued its append if and only if error > THRESHOLD; that is the case
\* only with real > fair and error <= BIAS_TOLERANCE, the entry is of type
\* OVERPRICED_BIAS, and its write puts it at the end of the queue.
Thm_C21_FairLoggedIffAboveThreshold ==
    \A p \in DOMAIN popup :
        popup[p] = "fair" =>
            /\ log_pc[p] # "idle" <=> ErrorOf(p) > THRESHOLD
            /\ logEntry[p] = NoEntry <=> ErrorOf(p) <= THRESHOLD
            /\ log_pc[p] # "idle" =>
                  /\ inputVector[p][4] > outputVector[p][4]
                  /\ ErrorOf(p) <= BIAS_TOLERANCE
                  /\ logEntry[p].type = "OVERPRICED_BIAS"
                  /\ logEntry[p].reconstruction_error = ErrorOf(p)
            /\ log_pc[p] = "done" => Last(trainingLogs) = logEntry[p]

\* C21 witness: a 'fair' popup at error = BIAS_TOLERANCE with real > fair,
\* its OVERPRICED_BIAS entry written to the queue.
Wit_C21_FairLoggedAsBias ==
    \E p \in DOMAIN popup :
        /\ popup[p] = "fair"
        /\ ErrorOf(p) = BIAS_TOLERANCE
        /\ log_pc[p] = "done"
        /\ Last(trainingLogs).type = "OVERPRICED_BIAS"
        /\ Last(trainingLogs).features = inputVector[p]

====
